---- MODULE Spec2Model ----
(***************************************************************************)
(* Model of the region annotation store of src/medical_app.py:             *)
(* the module globals `rectangles`, `rectangle_history`,                   *)
(* `current_history_index`, ... and the handlers of ECGAnalysisPage that    *)
(* read and write them (eventFilter, undo_action, redo_action,             *)
(* add_to_history, reset_workspace, delete_selected, open_image).          *)
(*                                                                         *)
(* Python lists are sequences; Python indices are 0-based, so              *)
(* rectangle_history[i] of the source is rectangle_history[i + 1] here.    *)
(* Scene coordinates (floats in the source) are drawn from a small grid.   *)
(*                                                                         *)
(* It also models the export of the regions (save_all_areas,               *)
(* ObservationDialog.on_validate / on_save) with the files they write, and *)
(* the digitization of a thresholded raster (digitalize_lead,              *)
(* DigitalizeDialog.digitalize_selected / save_all).  Floats that the       *)
(* source computes from integers are kept exact, as numerator and          *)
(* denominator.                                                            *)
(***************************************************************************)
EXTENDS Integers, Sequences, FiniteSets, TLC

\* ------------------------------------------------------------------ bounds

\* Longest history list the model lets a commit build.
MaxHistory == 4

\* Scene positions a mouse event can carry: two opposite corners, enough for
\* rectangles that overlap, rectangles that are disjoint, and drags that run
\* right-to-left (x flipped) or upwards (y flipped).
Points == {[x |-> 0, y |-> 1], [x |-> 1, y |-> 0]}

\* Non-empty names the user can type in the name dialog.
Labels == {"A", "B"}

\* What InputDialog.getValue can return: a label or the empty text.
Names == Labels \cup {""}

\* Outcomes of the name dialog: accepted with some text, or cancelled (the text
\* is then never read).
DialogResults ==
    [accepted : {TRUE}, name : Names] \cup [accepted : {FALSE}, name : {""}]

\* Files the file dialog of open_image can return: one cv2.imread can decode,
\* one it cannot (imread then returns None).
Files == {"ecg.png", "broken.png"}

\* Images cv2.imread can decode, of three shapes: a landscape scan, a long
\* strip, and a scan smaller than the display.
Scans == {"ecg.png", "strip.png", "small.png"}

\* Every image cv2.imread can decode: the scans and a photograph whose height
\* at width 1260 is not a whole number (1260 * 601 / 800 = 946.575).
Loadable == Scans \cup {"photo.png"}

\* img.shape of a decoded image, as (width, height).
image_shape(f) ==
    CASE f = "ecg.png" -> <<2000, 1000>>
      [] f = "strip.png" -> <<2520, 630>>
      [] f = "small.png" -> <<420, 210>>
      [] f = "photo.png" -> <<800, 601>>

\* Width every loaded image is resized to.
new_width == 1260

\* Height of img_resized_size before an image is loaded.
initial_resized_height == 900

\* open_image: (new_width, int(new_width / (width / height))).
resized_size(shape) ==
    LET width == shape[1]
        height == shape[2]
    IN <<new_width, (new_width * height) \div width>>

None == "None"

\* The empty dict, and the empty directory.
EmptyMap == [k \in {} |-> None]

\* No crop has been computed yet.
NoCrop == [rect |-> <<>>]

\* No digitization has run yet.
NoScan == [raster |-> "none"]

\* d[k] = v on a dict.
Put(d, k, v) == [j \in DOMAIN d \cup {k} |-> IF j = k THEN v ELSE d[j]]

\* ------------------------------------------------------------------- state

VARIABLES
    rectangles,             \* global rectangles: list of (x1, y1, x2, y2, name)
    rectangle_history,      \* global rectangle_history: list of lists
    current_history_index,  \* global current_history_index (0-based)
    selected_rectangle,     \* global selected_rectangle
    img,                    \* global img: None or a raster
    image_loaded,           \* global image_loaded
    opened_image_path,      \* global opened_image_path
    drawing,                \* self.drawing
    start_pos,              \* self.start_pos
    current_rect,           \* self.current_rect is set (truthy)
    last_event,             \* observer: outcome of the mouse event eventFilter
                            \* handled last ("release_add", "click_delete",
                            \* "release_cancel", "release_empty"), "none" once
                            \* a press started a drag or another handler ran
    redo_dropped,           \* observer: redo-able snapshots the commit of that
                            \* event discarded, 0 when it committed nothing
    img_original_size,      \* global img_original_size: (width, height)
    img_resized_size,       \* global img_resized_size: (width, height)
    sub_image,              \* the crop `sub_image` an export computed last
    files,                  \* the file system: file name -> content
    saved,                  \* observer: the image files written, in write order
    valid_selections,       \* ObservationDialog.valid_selections
    observations_dict,      \* ObservationDialog.observations_dict
    binary,                 \* the mask `binary` cv2.threshold returns for the
                            \* raster a digitization scans, as a list of rows
    digitalize_dialog,      \* a DigitalizeDialog is executing (dialog.exec_())
    processed_images,       \* DigitalizeDialog.processed_images
    processed_signals,      \* DigitalizeDialog.processed_signals
    scanned,                \* observer: the raster the digitization that ran
                            \* last thresholded, and how it was prepared
    pixels,                 \* the pixels of img where a specification follows
                            \* them (rows of HSV triples), <<>> where it does not
    pc,                     \* the statement a handler of the store has reached
    heap,                   \* the list objects of the store: identity -> items
    live,                   \* identity of the list `rectangles` is bound to
    snapshots,              \* identities of the lists in `rectangle_history`
    committed               \* observer: the items each list of the history had
                            \* when it was appended to it

\* The two image sizes open_image sets.
sizeVars == <<img_original_size, img_resized_size>>

\* What the export handlers read and write besides the store.
exportVars == <<sub_image, files, saved, valid_selections, observations_dict>>

\* What the digitization handlers read and write besides the store.
digitVars == <<binary, digitalize_dialog, processed_images, processed_signals,
               scanned>>

\* The store as Python objects (list identities), statement by statement.  Only
\* SpecHeap follows it; elsewhere lists are values and a handler is one step.
heapVars == <<pc, heap, live, snapshots, committed>>

\* What eventFilter and the toolbar handlers of the store read and write.
storeVars == <<rectangles, rectangle_history, current_history_index,
               selected_rectangle, img, image_loaded, opened_image_path,
               drawing, start_pos, current_rect, last_event, redo_dropped>>

vars == <<storeVars, sizeVars, exportVars, digitVars, heapVars, pixels>>

\* The three globals of the annotation store, as one value.
Store == [rectangles |-> rectangles,
          rectangle_history |-> rectangle_history,
          current_history_index |-> current_history_index]

\* ------------------------------------------------------- history operations

\* add_to_history with the truncation left out: the redo-able entries stay and
\* the index moves one step.
add_to_history_keeps_future(s) ==
    [s EXCEPT !.rectangle_history = Append(s.rectangle_history, s.rectangles),
              !.current_history_index = s.current_history_index + 1]

\* add_to_history: cut the history after the current index, append a copy of
\* the live list, point the index at the new last entry.
add_to_history(s) ==
    LET kept == SubSeq(s.rectangle_history, 1, s.current_history_index + 1)
        grown == Append(kept, s.rectangles)
    IN [s EXCEPT !.rectangle_history = grown,
                 !.current_history_index = Len(grown) - 1]

\* undo_action with the reload of the live list left out.
undo_action_keeps_live(s) ==
    IF s.current_history_index > 0
    THEN [s EXCEPT !.current_history_index = s.current_history_index - 1]
    ELSE s

\* undo_action.
undo_action(s) ==
    IF s.current_history_index > 0
    THEN LET i == s.current_history_index - 1
         IN [s EXCEPT !.current_history_index = i,
                      !.rectangles = s.rectangle_history[i + 1]]
    ELSE s

\* redo_action with the reload of the live list left out.
redo_action_keeps_live(s) ==
    IF s.current_history_index < Len(s.rectangle_history) - 1
    THEN [s EXCEPT !.current_history_index = s.current_history_index + 1]
    ELSE s

\* redo_action.
redo_action(s) ==
    IF s.current_history_index < Len(s.rectangle_history) - 1
    THEN LET i == s.current_history_index + 1
         IN [s EXCEPT !.current_history_index = i,
                      !.rectangles = s.rectangle_history[i + 1]]
    ELSE s

\* ------------------------------------------------------------ mouse events

\* x1 <= scene_pos.x() <= x2 and y1 <= scene_pos.y() <= y2
contains(rect, p) ==
    /\ rect[1] <= p.x /\ p.x <= rect[3]
    /\ rect[2] <= p.y /\ p.y <= rect[4]

\* The loop with a test that never matches.
hit_index_none(rects, p) == 0

\* The loop `for rect in rectangles: if <contains>: ... return True`: the index
\* of the first rectangle, in list order, that contains the point; 0 when the
\* loop ends without a match.
hit_index(rects, p) ==
    IF \E i \in 1..Len(rects) : contains(rects[i], p)
    THEN CHOOSE i \in 1..Len(rects) :
            /\ contains(rects[i], p)
            /\ \A j \in 1..(i - 1) : ~contains(rects[j], p)
    ELSE 0

\* A sequence without its k-th element.
remove_at(rects, k) ==
    [j \in 1..(Len(rects) - 1) |-> IF j < k THEN rects[j] ELSE rects[j + 1]]

\* list.remove(rect): removes the first element equal to rect.
list_remove(rects, rect) ==
    LET k == CHOOSE i \in 1..Len(rects) :
                /\ rects[i] = rect
                /\ \A j \in 1..(i - 1) : rects[j] # rect
    IN remove_at(rects, k)

\* The hit branch with the call of add_to_history left out.
click_delete_no_commit(s, p) ==
    LET rect == s.rectangles[hit_index(s.rectangles, p)]
    IN [s EXCEPT !.rectangles = list_remove(s.rectangles, rect)]

\* The MouseButtonPress branch on a hit: remove the rectangle, commit.
click_delete(s, p) ==
    LET rect == s.rectangles[hit_index(s.rectangles, p)]
    IN add_to_history([s EXCEPT !.rectangles = list_remove(s.rectangles, rect)])

\* MouseButtonPress, on the store: a hit deletes, a miss leaves the store alone
\* (it starts a drag).
press_store(s, p) ==
    IF hit_index(s.rectangles, p) # 0 THEN click_delete(s, p) ELSE s

\* QRectF(start, end).normalized(): a negative width or height is flipped.
normalized(start, end) ==
    LET w == end.x - start.x
        h == end.y - start.y
    IN [x |-> IF w < 0 THEN start.x + w ELSE start.x,
        y |-> IF h < 0 THEN start.y + h ELSE start.y,
        width |-> IF w < 0 THEN -w ELSE w,
        height |-> IF h < 0 THEN -h ELSE h]

\* The tuple appended on release.
new_rectangle(start, end, name) ==
    LET rect == normalized(start, end)
    IN <<rect.x, rect.y, rect.x + rect.width, rect.y + rect.height, name>>

\* The same without the `if name:` test.
name_given_ignores_text(accepted, name) == accepted

\* `if dialog.exec_() == QDialog.Accepted: name = dialog.getValue(); if name:`
name_given(accepted, name) == accepted /\ name # ""

\* The MouseButtonRelease branch, on the store.
release_store(s, start, end, accepted, name) ==
    IF name_given(accepted, name)
    THEN add_to_history(
            [s EXCEPT !.rectangles = Append(s.rectangles,
                                            new_rectangle(start, end, name))])
    ELSE s

\* ------------------------------------------------------------------ actions

\* The list objects are not followed.
HeapNotFollowed ==
    /\ pc = "idle"
    /\ heap = EmptyMap
    /\ live = 0
    /\ snapshots = <<>>
    /\ committed = EmptyMap


Init ==
    /\ rectangles = <<>>
    /\ rectangle_history = <<rectangles>>
    /\ current_history_index = 0
    /\ selected_rectangle = None
    /\ img = None
    /\ image_loaded = FALSE
    /\ opened_image_path = None
    /\ drawing = FALSE
    /\ start_pos = None
    /\ current_rect = FALSE
    /\ last_event = "none"
    /\ redo_dropped = 0
    /\ img_original_size = <<0, 0>>
    /\ img_resized_size = <<new_width, initial_resized_height>>
    /\ sub_image = NoCrop
    /\ files = EmptyMap
    /\ saved = <<>>
    /\ valid_selections = <<>>
    /\ observations_dict = EmptyMap
    /\ binary = <<>>
    /\ digitalize_dialog = FALSE
    /\ processed_images = EmptyMap
    /\ processed_signals = EmptyMap
    /\ scanned = NoScan
    /\ pixels = <<>>
    /\ HeapNotFollowed

SetStore(s) ==
    /\ rectangles' = s.rectangles
    /\ rectangle_history' = s.rectangle_history
    /\ current_history_index' = s.current_history_index

\* The model stops committing when the history would outgrow MaxHistory.
CanCommit == current_history_index + 2 <= MaxHistory

Dropped == Len(rectangle_history) - (current_history_index + 1)

\* open_image that also starts a new, empty annotation.
OpenImageClears(f) ==
    /\ opened_image_path' = f
    /\ IF f \in Loadable
       THEN /\ img' = "raster" /\ image_loaded' = TRUE
            /\ img_original_size' = image_shape(f)
            /\ img_resized_size' = resized_size(image_shape(f))
       ELSE /\ img' = None /\ image_loaded' = image_loaded
            /\ UNCHANGED sizeVars
    /\ rectangles' = <<>>
    /\ last_event' = "none"
    /\ redo_dropped' = 0
    /\ UNCHANGED <<rectangle_history, current_history_index,
                   selected_rectangle, drawing, start_pos, current_rect>>
    /\ UNCHANGED <<exportVars, digitVars, heapVars, pixels>>

\* open_image with a file chosen in the dialog.
OpenImage(f) ==
    /\ opened_image_path' = f
    /\ IF f \in Loadable
       THEN /\ img' = "raster" /\ image_loaded' = TRUE
            /\ img_original_size' = image_shape(f)
            /\ img_resized_size' = resized_size(image_shape(f))
       ELSE /\ img' = None /\ image_loaded' = image_loaded
            /\ UNCHANGED sizeVars
    /\ last_event' = "none"
    /\ redo_dropped' = 0
    /\ UNCHANGED <<rectangles, rectangle_history, current_history_index,
                   selected_rectangle, drawing, start_pos, current_rect>>
    /\ UNCHANGED <<exportVars, digitVars, heapVars, pixels>>

\* eventFilter, MouseButtonPress with the left button at scene position p.
MousePress(p) ==
    /\ image_loaded
    /\ IF hit_index(rectangles, p) # 0
       THEN /\ CanCommit
            /\ SetStore(press_store(Store, p))
            /\ last_event' = "click_delete"
            /\ redo_dropped' = Dropped
            /\ UNCHANGED <<drawing, start_pos, current_rect>>
       ELSE /\ drawing' = TRUE
            /\ current_rect' = TRUE
            /\ start_pos' = p
            /\ last_event' = "none"
            /\ redo_dropped' = 0
            /\ UNCHANGED <<rectangles, rectangle_history, current_history_index>>
    /\ UNCHANGED <<selected_rectangle, img, image_loaded, opened_image_path>>
    /\ UNCHANGED <<sizeVars, exportVars, digitVars, heapVars, pixels>>

\* eventFilter, MouseButtonRelease with the left button at scene position p;
\* the name dialog is accepted or cancelled, with the text `name` in it.
MouseRelease(p, accepted, name) ==
    /\ image_loaded
    /\ drawing
    /\ drawing' = FALSE
    /\ IF current_rect
       THEN /\ name_given(accepted, name) => CanCommit
            /\ SetStore(release_store(Store, start_pos, p, accepted, name))
            /\ last_event' = IF ~accepted THEN "release_cancel"
                         ELSE IF name = "" THEN "release_empty"
                         ELSE "release_add"
            /\ redo_dropped' = IF name_given(accepted, name) THEN Dropped ELSE 0
            /\ current_rect' = FALSE
            /\ start_pos' = None
       ELSE /\ last_event' = "none"
            /\ redo_dropped' = 0
            /\ UNCHANGED <<rectangles, rectangle_history, current_history_index,
                           current_rect, start_pos>>
    /\ UNCHANGED <<selected_rectangle, img, image_loaded, opened_image_path>>
    /\ UNCHANGED <<sizeVars, exportVars, digitVars, heapVars, pixels>>

Undo ==
    /\ SetStore(undo_action(Store))
    /\ last_event' = "none"
    /\ redo_dropped' = 0
    /\ UNCHANGED <<selected_rectangle, img, image_loaded, opened_image_path,
                   drawing, start_pos, current_rect>>
    /\ UNCHANGED <<sizeVars, exportVars, digitVars, heapVars, pixels>>

Redo ==
    /\ SetStore(redo_action(Store))
    /\ last_event' = "none"
    /\ redo_dropped' = 0
    /\ UNCHANGED <<selected_rectangle, img, image_loaded, opened_image_path,
                   drawing, start_pos, current_rect>>
    /\ UNCHANGED <<sizeVars, exportVars, digitVars, heapVars, pixels>>

\* reset_workspace: returns at once when no image path was ever chosen; else
\* clears the live list and the selection, then reloads the image from the path.
ResetWorkspace ==
    /\ opened_image_path # None
    /\ rectangles' = <<>>
    /\ selected_rectangle' = None
    /\ img' = IF opened_image_path \in Loadable THEN "raster" ELSE None
    /\ last_event' = "none"
    /\ redo_dropped' = 0
    /\ UNCHANGED <<rectangle_history, current_history_index, image_loaded,
                   opened_image_path, drawing, start_pos, current_rect>>
    /\ UNCHANGED <<sizeVars, exportVars, digitVars, heapVars, pixels>>

\* delete_selected without the test of the selection: the first region goes.
delete_selected_first(s, sel) ==
    IF s.rectangles # <<>>
    THEN [store |-> [s EXCEPT !.rectangles = Tail(s.rectangles)],
          selected_rectangle |-> None]
    ELSE [store |-> s, selected_rectangle |-> sel]

\* delete_selected, on the store and the selection.
delete_selected(s, sel) ==
    IF sel # None /\ (\E i \in 1..Len(s.rectangles) : s.rectangles[i] = sel)
    THEN [store |-> [s EXCEPT !.rectangles = list_remove(s.rectangles, sel)],
          selected_rectangle |-> None]
    ELSE [store |-> s, selected_rectangle |-> sel]

DeleteSelected ==
    /\ SetStore(delete_selected(Store, selected_rectangle).store)
    /\ selected_rectangle' = delete_selected(Store, selected_rectangle).selected_rectangle
    /\ last_event' = "none"
    /\ redo_dropped' = 0
    /\ UNCHANGED <<img, image_loaded, opened_image_path, drawing, start_pos,
                   current_rect>>
    /\ UNCHANGED <<sizeVars, exportVars, digitVars, heapVars, pixels>>

\* The edits of the annotation store: drawing, click-delete, Delete Selection,
\* undo and redo (with the image loads they need).
NextEdit ==
    \/ \E f \in Files : OpenImage(f)
    \/ \E p \in Points : MousePress(p)
    \/ \E p \in Points, d \in DialogResults :
          MouseRelease(p, d.accepted, d.name)
    \/ Undo
    \/ Redo
    \/ DeleteSelected

Next ==
    \/ NextEdit
    \/ ResetWorkspace

SpecEdit == Init /\ [][NextEdit]_vars

Spec == Init /\ [][Next]_vars

\* ------------------------------------------------------------------- export

\* Most image files the model lets the export handlers write.
MaxFiles == 3

\* Regions a user has drawn on the displayed image: a box, a second box with
\* another label, a box one scene unit tall, a second box with the label of the
\* first (nothing in the release branch prevents it).
BoxA == <<100, 100, 300, 200, "A">>
BoxB == <<0, 0, 50, 150, "B">>
ThinB == <<100, 100, 300, 101, "B">>
BoxA2 == <<400, 50, 500, 150, "A">>

\* Live lists the export handlers are run on.
ExportLists == {<<BoxA>>, <<BoxA, BoxB>>, <<ThinB, BoxA>>, <<BoxA, BoxA2>>}

\* Items of dropdown_class_selection the model lets the user pick.
Classes == {"Class A", "Class B"}

\* Texts of text_observation_entry: none, or some note.
Texts == {"", "note"}

\* int(v * resized / original) for a coordinate v >= 0.
to_image_space(v, resized, original) == (v * resized) \div original

\* "Convert coordinates to image space": x is scaled by img_resized_size[0] /
\* img_original_size[1], y by img_resized_size[1] / img_original_size[0].
resized_rect(rect, resized, original) ==
    <<to_image_space(rect[1], resized[1], original[2]),
      to_image_space(rect[2], resized[2], original[1]),
      to_image_space(rect[3], resized[1], original[2]),
      to_image_space(rect[4], resized[2], original[1])>>

\* Length of the slice lo:hi of an axis of n pixels (0 <= lo, 0 <= hi).
slice_len(lo, hi, n) ==
    LET l == IF lo < n THEN lo ELSE n
        h == IF hi < n THEN hi ELSE n
    IN IF h > l THEN h - l ELSE 0

\* sub_image = img[y1_resized:y2_resized, x1_resized:x2_resized], img being the
\* resized raster: the region it was cut for, the slice bounds, its shape.
crop(rect, resized, original) ==
    LET b == resized_rect(rect, resized, original)
    IN [rect |-> rect, x1 |-> b[1], y1 |-> b[2], x2 |-> b[3], y2 |-> b[4],
        width |-> slice_len(b[1], b[3], resized[1]),
        height |-> slice_len(b[2], b[4], resized[2])]

\* cv2.imwrite raises on a raster without pixels.
imwrite_raises(sub) == sub.width = 0 \/ sub.height = 0

\* The text f"{label}{sep}{n}", f"{label}" when n = 0.
text_name(label, sep, n) == [label |-> label, sep |-> sep, n |-> n]

plain(label) == text_name(label, "", 0)

\* os.path.join(dir, f"{name}{ext}")
file_name(dir, name, ext) == [dir |-> dir, name |-> name, ext |-> ext]

\* The `while os.path.exists(...)` loops: f"{label}.png" when that is free, else
\* f"{label}{sep}{counter}.png" for the first counter 1, 2, ... that is free.
unique_name(fs, label, sep) ==
    IF file_name("save_dir", plain(label), ".png") \notin DOMAIN fs
    THEN plain(label)
    ELSE LET taken(c) ==
                 file_name("save_dir", text_name(label, sep, c), ".png") \in DOMAIN fs
             counter == CHOOSE c \in 1..(Cardinality(DOMAIN fs) + 1) :
                            ~taken(c) /\ \A b \in 1..(c - 1) : taken(b)
         IN text_name(label, sep, counter)

\* What an export loop carries from one region to the next.
export_state(fs, log, sub, raised) ==
    [files |-> fs, saved |-> log, sub_image |-> sub, raised |-> raised]

\* The loop of save_all_areas over the live list; the first exception ends it.
RECURSIVE save_all_areas(_, _, _, _)
save_all_areas(st, rects, resized, original) ==
    IF rects = <<>> \/ st.raised
    THEN st
    ELSE LET rect == Head(rects)
             sub == crop(rect, resized, original)
             filename == file_name("save_dir",
                                   unique_name(st.files, rect[5], "_"), ".png")
         IN IF imwrite_raises(sub)
            THEN export_state(st.files, st.saved, sub, TRUE)
            ELSE save_all_areas(
                    export_state(Put(st.files, filename, sub),
                                 Append(st.saved,
                                        [file |-> filename, class |-> None]),
                                 sub, FALSE),
                    Tail(rects), resized, original)

\* open(class_filename, "w") in place of "a": the entry replaces the content.
class_file_overwrite(content, entry) == <<entry>>

\* with open(class_filename, "a") as class_file: class_file.write(f"{entry}, ")
class_file_write(content, entry) == Append(content, entry)

\* Content of a file, the empty content when it does not exist yet.
content_of(fs, f) == IF f \in DOMAIN fs THEN fs[f] ELSE <<>>

\* `for rect in self.rectangles: if name == selected_name: ... break`: the index
\* of the first region with the name, 0 when there is none.
first_named(rects, name) ==
    IF \E i \in 1..Len(rects) : rects[i][5] = name
    THEN CHOOSE i \in 1..Len(rects) :
            /\ rects[i][5] = name
            /\ \A j \in 1..(i - 1) : rects[j][5] # name
    ELSE 0

\* The loop of ObservationDialog.on_save over valid_selections; the first
\* exception ends it.
RECURSIVE on_save(_, _, _, _, _, _)
on_save(st, selections, dict, rects, resized, original) ==
    IF selections = <<>> \/ st.raised
    THEN st
    ELSE LET selected_name == Head(selections)
             k == first_named(rects, selected_name)
         IN IF k = 0
            THEN on_save(st, Tail(selections), dict, rects, resized, original)
            ELSE LET observation_data == dict[selected_name]
                     sub == crop(rects[k], resized, original)
                     unique == unique_name(st.files, selected_name, "_copy")
                     filename == file_name("save_dir", unique, ".png")
                     with_image == Put(st.files, filename, sub)
                     with_text ==
                         IF observation_data.observation # ""
                         THEN Put(with_image,
                                  file_name("save_dir", unique, "_observation.txt"),
                                  observation_data.observation)
                         ELSE with_image
                     class_filename ==
                         file_name("save_dir/classes",
                                   plain(observation_data.class), ".txt")
                     with_class ==
                         Put(with_text, class_filename,
                             class_file_write(content_of(with_text, class_filename),
                                              unique))
                 IN IF imwrite_raises(sub)
                    THEN export_state(st.files, st.saved, sub, TRUE)
                    ELSE on_save(
                            export_state(with_class,
                                         Append(st.saved,
                                                [file |-> filename,
                                                 class |-> observation_data.class]),
                                         sub, FALSE),
                            Tail(selections), dict, rects, resized, original)

\* The list [], [r1], [r1, r2], ... the commits of the adds have built.
history_of(rects) == [i \in 1..(Len(rects) + 1) |-> SubSeq(rects, 1, i - 1)]

\* An image has been opened and the regions of one list drawn on it; nothing
\* has been exported yet.
InitExport ==
    \E f \in Scans, rects \in ExportLists :
        /\ rectangles = rects
        /\ rectangle_history = history_of(rects)
        /\ current_history_index = Len(rects)
        /\ selected_rectangle = None
        /\ img = "raster"
        /\ image_loaded = TRUE
        /\ opened_image_path = f
        /\ drawing = FALSE
        /\ start_pos = None
        /\ current_rect = FALSE
        /\ last_event = "none"
        /\ redo_dropped = 0
        /\ img_original_size = image_shape(f)
        /\ img_resized_size = resized_size(image_shape(f))
        /\ sub_image = NoCrop
        /\ files = EmptyMap
        /\ saved = <<>>
        /\ valid_selections = <<>>
        /\ observations_dict = EmptyMap
        /\ binary = <<>>
        /\ digitalize_dialog = FALSE
        /\ processed_images = EmptyMap
        /\ processed_signals = EmptyMap
        /\ scanned = NoScan
        /\ pixels = <<>>
        /\ HeapNotFollowed

\* The handlers below leave the store alone; the observer of the mouse events
\* reads "none" after them, as after every handler that is not a mouse event.
StoreUntouched ==
    /\ last_event' = "none"
    /\ redo_dropped' = 0
    /\ UNCHANGED <<rectangles, rectangle_history, current_history_index,
                   selected_rectangle, img, image_loaded, opened_image_path,
                   drawing, start_pos, current_rect>>
    /\ UNCHANGED <<sizeVars, heapVars, pixels>>

SetExport(st) ==
    /\ files' = st.files
    /\ saved' = st.saved
    /\ sub_image' = st.sub_image

\* save_all_areas with a directory chosen in the dialog.
SaveAllAreas ==
    /\ rectangles # <<>>
    /\ img # None
    /\ Len(saved) + Len(rectangles) <= MaxFiles
    /\ SetExport(save_all_areas(export_state(files, saved, sub_image, FALSE),
                                rectangles, img_resized_size, img_original_size))
    /\ StoreUntouched
    /\ UNCHANGED <<valid_selections, observations_dict, digitVars>>

\* ObservationDialog.on_validate with a region name, a class and a text chosen.
\* The model stops validating when the files of the selections would outgrow
\* MaxFiles.
OnValidate(selected_name, selected_class, observation_text) ==
    /\ \E i \in 1..Len(rectangles) : rectangles[i][5] = selected_name
    /\ Len(saved) + Len(valid_selections) < MaxFiles
    /\ observations_dict' =
          IF selected_name \notin DOMAIN observations_dict
          THEN Put(observations_dict, selected_name,
                   [observation |-> observation_text, class |-> selected_class])
          ELSE observations_dict
    /\ valid_selections' =
          IF \A i \in 1..Len(valid_selections) : valid_selections[i] # selected_name
          THEN Append(valid_selections, selected_name)
          ELSE valid_selections
    /\ StoreUntouched
    /\ UNCHANGED <<sub_image, files, saved, digitVars>>

\* ObservationDialog.on_save with a directory chosen in the dialog.  When the
\* loop ends without an exception the dialog is accepted, and the next one
\* starts with nothing validated.
OnSave ==
    /\ valid_selections # <<>>
    /\ img # None
    /\ Len(saved) + Len(valid_selections) <= MaxFiles
    /\ LET st == on_save(export_state(files, saved, sub_image, FALSE),
                         valid_selections, observations_dict, rectangles,
                         img_resized_size, img_original_size)
       IN /\ SetExport(st)
          /\ IF st.raised
             THEN UNCHANGED <<valid_selections, observations_dict>>
             ELSE valid_selections' = <<>> /\ observations_dict' = EmptyMap
    /\ StoreUntouched
    /\ UNCHANGED digitVars

NextExport ==
    \/ SaveAllAreas
    \/ \E name \in Labels, class \in Classes, text \in Texts :
          OnValidate(name, class, text)
    \/ OnSave

SpecExport == InitExport /\ [][NextExport]_vars

\* ------------------------------------------------------------- digitization

\* Most rows of a thresholded raster.
MaxHeight == 4

\* Numbers of columns of a thresholded raster.
MaskWidths == {1, 2}

\* What cv2.threshold(..., 255, THRESH_BINARY_INV) can return: every pixel is 0
\* (background) or 255 (signal).  binary[r + 1][x + 1] is pixel (row r, column x).
Masks ==
    UNION {[1..h -> [1..w -> {0, 255}]] : h \in 1..MaxHeight, w \in MaskWidths}

\* The scaling factors of digitalize_lead; time_scale = 0.01 is kept as 1/100.
max_amplitude == 1
min_amplitude == -1
time_scale == [num |-> 1, den |-> 100]

\* The exact value num / den of a float computed from integers.
ratio(num, den) == [num |-> num, den |-> den]

Smallest(S) == CHOOSE y \in S : \A z \in S : y <= z

Largest(S) == CHOOSE y \in S : \A z \in S : z <= y

RECURSIVE Sum(_)
Sum(S) == IF S = {} THEN 0 ELSE LET y == Smallest(S) IN y + Sum(S \ {y})

\* range(n), from last to first.
range_reversed(n) == [i \in 1..n |-> n - i]

\* range(n)
range(n) == [i \in 1..n |-> i - 1]

\* The rows of column x that hold 0.
where_zero(b, x) == {r \in 0..(Len(b) - 1) : b[r + 1][x + 1] = 0}

\* np.where(binary[:, x] == 255)[0]: the rows of column x that hold 255.
where255(b, x) == {r \in 0..(Len(b) - 1) : b[r + 1][x + 1] = 255}

\* The amplitude range run the other way: min_amplitude at row 0.
normalized_y_flipped(y, height) ==
    ratio(min_amplitude * height + (max_amplitude - min_amplitude) * y, height)

\* max_amplitude - (max_amplitude - min_amplitude) * (y / height)
normalized_y(y, height) ==
    ratio(max_amplitude * height - (max_amplitude - min_amplitude) * y, height)

\* The column loop of digitalize_lead over the columns xs: for a column with
\* signal pixels, the row [time, amplitude] of the floored middle of the first
\* and the last of them.
RECURSIVE lead_signal(_, _)
lead_signal(b, xs) ==
    IF xs = <<>>
    THEN <<>>
    ELSE LET x == Head(xs)
             y_indices == where255(b, x)
             y == (Smallest(y_indices) + Largest(y_indices)) \div 2
             time == ratio(x * time_scale.num, time_scale.den)
         IN (IF y_indices # {}
             THEN <<<<time, normalized_y(y, Len(b))>>>>
             ELSE <<>>) \o lead_signal(b, Tail(xs))

\* The column loop of digitalize_selected over the columns xs: for a column
\* with signal pixels, the row [x, np.mean(points)].
RECURSIVE mean_signal(_, _)
mean_signal(b, xs) ==
    IF xs = <<>>
    THEN <<>>
    ELSE LET x == Head(xs)
             points == where255(b, x)
         IN (IF points # {}
             THEN <<<<x, ratio(Sum(points), Cardinality(points))>>>>
             ELSE <<>>) \o mean_signal(b, Tail(xs))

\* digitalize_lead thresholds cv2.cvtColor(img, ...), the whole image, as it is:
\* masked only when remove_background has replaced img before.
lead_scan(image) ==
    [raster |-> "img", region |-> <<>>, masked |-> image = "preprocessed"]

\* digitalize_selected thresholds the preview of the region, after masking it
\* with cv2.inRange itself.
dialog_scan(sub) ==
    [raster |-> "sub_image", region |-> sub.rect, masked |-> TRUE]

\* The file digitalize_lead writes, in the working directory.
lead_csv == file_name("cwd", plain("digitalized_signal"), ".csv")

\* The same with the file opened in mode 'a': the rows follow the earlier ones.
lead_export_appends(fs, b) ==
    Put(fs, lead_csv,
        content_of(fs, lead_csv)
            \o <<<<"Time (s)", "Amplitude">>>> \o lead_signal(b, range(Len(b[1]))))

\* What digitalize_lead does once the dialog has returned: digitize the
\* thresholded image and write the file, replacing an earlier one.
lead_export(fs, b) ==
    Put(fs, lead_csv,
        <<<<"Time (s)", "Amplitude">>>> \o lead_signal(b, range(Len(b[1]))))

\* The loop of DigitalizeDialog.save_all over the names `todo` of
\* processed_signals: one file per name, replacing an earlier one.
RECURSIVE save_all(_, _, _)
save_all(fs, signals, todo) ==
    IF todo = {}
    THEN fs
    ELSE LET name == CHOOSE n \in todo : TRUE
         IN save_all(Put(fs, file_name("save_dir", plain(name), "_signal.csv"),
                         <<<<"x", "y">>>> \o signals[name]),
                     signals, todo \ {name})

\* An image has been opened and region A drawn on it; `binary` is what
\* thresholding its raster gives.
InitDigitize ==
    \E b \in Masks :
        /\ rectangles = <<BoxA>>
        /\ rectangle_history = history_of(rectangles)
        /\ current_history_index = Len(rectangles)
        /\ selected_rectangle = None
        /\ img = "raster"
        /\ image_loaded = TRUE
        /\ opened_image_path = "ecg.png"
        /\ drawing = FALSE
        /\ start_pos = None
        /\ current_rect = FALSE
        /\ last_event = "none"
        /\ redo_dropped = 0
        /\ img_original_size = image_shape(opened_image_path)
        /\ img_resized_size = resized_size(image_shape(opened_image_path))
        /\ sub_image = NoCrop
        /\ files = EmptyMap
        /\ saved = <<>>
        /\ valid_selections = <<>>
        /\ observations_dict = EmptyMap
        /\ binary = b
        /\ digitalize_dialog = FALSE
        /\ processed_images = EmptyMap
        /\ processed_signals = EmptyMap
        /\ scanned = NoScan
        /\ pixels = <<>>
        /\ HeapNotFollowed

\* digitalize_lead up to dialog.exec_(): a new DigitalizeDialog starts.
DigitalizeLead ==
    /\ ~digitalize_dialog
    /\ rectangles # <<>>
    /\ digitalize_dialog' = TRUE
    /\ processed_images' = EmptyMap
    /\ processed_signals' = EmptyMap
    /\ StoreUntouched
    /\ UNCHANGED <<exportVars, binary, scanned>>

\* DigitalizeDialog.preview_selected with `name` current in rect_list.
PreviewSelected(name) ==
    /\ digitalize_dialog
    /\ first_named(rectangles, name) # 0
    /\ LET sub == crop(rectangles[first_named(rectangles, name)],
                       img_resized_size, img_original_size)
       IN /\ sub_image' = sub
          /\ processed_images' = Put(processed_images, name, sub)
    /\ StoreUntouched
    /\ UNCHANGED <<files, saved, valid_selections, observations_dict,
                   binary, digitalize_dialog, processed_signals, scanned>>

\* DigitalizeDialog.digitalize_selected with `name` current in rect_list;
\* cv2.cvtColor raises on a preview without pixels.
DigitalizeSelected(name) ==
    /\ digitalize_dialog
    /\ name \in DOMAIN processed_images
    /\ ~imwrite_raises(processed_images[name])
    /\ processed_signals' =
          Put(processed_signals, name, mean_signal(binary, range(Len(binary[1]))))
    /\ scanned' = dialog_scan(processed_images[name])
    /\ StoreUntouched
    /\ UNCHANGED <<exportVars, binary, digitalize_dialog, processed_images>>

\* DigitalizeDialog.save_all with a directory chosen; it accepts the dialog,
\* and digitalize_lead goes on after dialog.exec_().
SaveAll ==
    /\ digitalize_dialog
    /\ DOMAIN processed_signals # {}
    /\ files' = lead_export(save_all(files, processed_signals,
                                     DOMAIN processed_signals), binary)
    /\ scanned' = lead_scan(img)
    /\ digitalize_dialog' = FALSE
    /\ StoreUntouched
    /\ UNCHANGED <<sub_image, saved, valid_selections, observations_dict,
                   binary, processed_images, processed_signals>>

\* The dialog is closed without Save All, and digitalize_lead goes on after
\* dialog.exec_().
CloseDialog ==
    /\ digitalize_dialog
    /\ files' = lead_export(files, binary)
    /\ scanned' = lead_scan(img)
    /\ digitalize_dialog' = FALSE
    /\ StoreUntouched
    /\ UNCHANGED <<sub_image, saved, valid_selections, observations_dict,
                   binary, processed_images, processed_signals>>

NextDigitize ==
    \/ DigitalizeLead
    \/ \E name \in Labels : PreviewSelected(name)
    \/ \E name \in Labels : DigitalizeSelected(name)
    \/ SaveAll
    \/ CloseDialog

SpecDigitize == InitDigitize /\ [][NextDigitize]_vars

\* ------------------------------------------------------------- list objects

\* The statements of the handlers one at a time, with the list objects behind
\* the names: heap maps an object to its items, live is the object the global
\* rectangles names, snapshots the objects rectangle_history holds.

\* The objects some name still reaches; the others are gone.
collect(h, roots) == [o \in roots |-> h[o]]

Range(seq) == {seq[i] : i \in 1..Len(seq)}

\* The object a constructor or copy() returns: one that no name reaches yet.
new_object(h) ==
    Smallest({o \in 1..(Cardinality(DOMAIN h) + 1) : o \notin DOMAIN h})

\* Appending the list itself instead of a copy of it.
list_alias(h, o) == [heap |-> h, ref |-> o]

\* list.copy(): a new object with the same items.
list_copy(h, o) ==
    [heap |-> Put(h, new_object(h), h[o]), ref |-> new_object(h)]

\* The slice [:current_history_index], one entry short.
truncated_short(snaps, index) == SubSeq(snaps, 1, index)

\* rectangle_history[:current_history_index + 1]
truncated(snaps, index) == SubSeq(snaps, 1, index + 1)

\* The values behind the names.
Deref(h, snaps) == [i \in 1..Len(snaps) |-> h[snaps[i]]]

SetHeap(h, l, snaps) ==
    /\ heap' = collect(h, {l} \cup Range(snaps))
    /\ live' = l
    /\ snapshots' = snaps
    /\ rectangles' = h[l]
    /\ rectangle_history' = Deref(h, snaps)

HeapRest ==
    UNCHANGED <<selected_rectangle, img, image_loaded, opened_image_path,
                drawing, start_pos, current_rect, last_event, redo_dropped,
                sizeVars, exportVars, digitVars, pixels>>

\* A fresh window (globals of lines 28-47, ECGAnalysisPage.__init__) after
\* open_image of ecg.png.
LoadedWindow ==
    /\ rectangles = <<>>
    /\ rectangle_history = <<rectangles>>
    /\ current_history_index = 0
    /\ selected_rectangle = None
    /\ img = "raster"
    /\ image_loaded = TRUE
    /\ opened_image_path = "ecg.png"
    /\ drawing = FALSE
    /\ start_pos = None
    /\ current_rect = FALSE
    /\ last_event = "none"
    /\ redo_dropped = 0
    /\ img_original_size = image_shape("ecg.png")
    /\ img_resized_size = resized_size(image_shape("ecg.png"))
    /\ sub_image = NoCrop
    /\ files = EmptyMap
    /\ saved = <<>>
    /\ valid_selections = <<>>
    /\ observations_dict = EmptyMap
    /\ binary = <<>>
    /\ digitalize_dialog = FALSE
    /\ processed_images = EmptyMap
    /\ processed_signals = EmptyMap
    /\ scanned = NoScan

\* The live list and the one snapshot are two empty list objects.
InitHeap ==
    /\ LoadedWindow
    /\ pixels = <<>>
    /\ pc = "idle"
    /\ heap = Put(Put(EmptyMap, 1, <<>>), 2, <<>>)
    /\ live = 1
    /\ snapshots = <<2>>
    /\ committed = Put(EmptyMap, 2, <<>>)

\* eventFilter, press inside a region: rectangles.remove(rect), in place.
PressRemove(p) ==
    /\ pc = "idle"
    /\ image_loaded
    /\ hit_index(rectangles, p) # 0
    /\ CanCommit
    /\ SetHeap([heap EXCEPT ![live] = remove_at(@, hit_index(@, p))],
               live, snapshots)
    /\ pc' = "edited"
    /\ UNCHANGED <<current_history_index, committed>>
    /\ HeapRest

\* eventFilter, release with a name given: rectangles.append(...), in place.
ReleaseAppend(start, end, name) ==
    /\ pc = "idle"
    /\ image_loaded
    /\ CanCommit
    /\ SetHeap([heap EXCEPT ![live] = Append(@, new_rectangle(start, end, name))],
               live, snapshots)
    /\ pc' = "edited"
    /\ UNCHANGED <<current_history_index, committed>>
    /\ HeapRest

\* add_to_history, first statement.
Truncate ==
    /\ pc = "edited"
    /\ SetHeap(heap, live, truncated(snapshots, current_history_index))
    /\ committed' = collect(committed,
                            Range(truncated(snapshots, current_history_index)))
    /\ pc' = "truncated"
    /\ UNCHANGED current_history_index
    /\ HeapRest

\* add_to_history, second statement.
AppendCopy ==
    /\ pc = "truncated"
    /\ LET c == list_copy(heap, live)
       IN /\ SetHeap(c.heap, live, Append(snapshots, c.ref))
          /\ committed' = Put(committed, c.ref, heap[live])
    /\ pc' = "appended"
    /\ UNCHANGED current_history_index
    /\ HeapRest

\* add_to_history, third statement.
PointAtLast ==
    /\ pc = "appended"
    /\ current_history_index' = Len(rectangle_history) - 1
    /\ pc' = "idle"
    /\ UNCHANGED <<rectangles, rectangle_history, heap, live, snapshots, committed>>
    /\ HeapRest

\* undo_action: the test and current_history_index -= 1.
UndoMove ==
    /\ pc = "idle"
    /\ current_history_index > 0
    /\ current_history_index' = current_history_index - 1
    /\ pc' = "moved"
    /\ UNCHANGED <<rectangles, rectangle_history, heap, live, snapshots, committed>>
    /\ HeapRest

\* redo_action: the test and current_history_index += 1.
RedoMove ==
    /\ pc = "idle"
    /\ current_history_index < Len(rectangle_history) - 1
    /\ current_history_index' = current_history_index + 1
    /\ pc' = "moved"
    /\ UNCHANGED <<rectangles, rectangle_history, heap, live, snapshots, committed>>
    /\ HeapRest

\* undo_action and redo_action, last statement:
\* rectangles = rectangle_history[current_history_index].copy()
LoadCopy ==
    /\ pc = "moved"
    /\ LET c == list_copy(collect(heap, Range(snapshots)),
                          snapshots[current_history_index + 1])
       IN SetHeap(c.heap, c.ref, snapshots)
    /\ pc' = "idle"
    /\ UNCHANGED <<current_history_index, committed>>
    /\ HeapRest

\* reset_workspace: rectangles = [], a new list object.
ResetLive ==
    /\ pc = "idle"
    /\ opened_image_path # None
    /\ LET h == collect(heap, Range(snapshots))
       IN SetHeap(Put(h, new_object(h), <<>>), new_object(h), snapshots)
    /\ selected_rectangle' = None
    /\ img' = IF opened_image_path \in Loadable THEN "raster" ELSE None
    /\ UNCHANGED <<pc, current_history_index, committed>>
    /\ UNCHANGED <<image_loaded, opened_image_path, drawing, start_pos,
                   current_rect, last_event, redo_dropped,
                   sizeVars, exportVars, digitVars, pixels>>

NextHeap ==
    \/ \E p \in Points : PressRemove(p)
    \/ \E start \in Points, end \in Points, name \in Labels :
          ReleaseAppend(start, end, name)
    \/ Truncate
    \/ AppendCopy
    \/ PointAtLast
    \/ UndoMove
    \/ RedoMove
    \/ LoadCopy
    \/ ResetLive

SpecHeap == InitHeap /\ [][NextHeap]_vars

\* ------------------------------------------------------- image preparation

\* Values a colour channel takes in the model: both sides of the V bound 220,
\* and the two ends of the range.
Channels == {0, 220, 221, 255}

\* (B, G, R)
PixelValues == Channels \X Channels \X Channels

\* Windows of the image small enough to enumerate: one pixel, two in a row, two
\* in a column.
Rasters ==
    {<<<<px>>>> : px \in PixelValues}
        \cup {<<<<px, qx>>>> : px \in PixelValues, qx \in PixelValues}
        \cup {<<<<px>>, <<qx>>>> : px \in PixelValues, qx \in PixelValues}

Max3(a, b, c) == Largest({a, b, c})

Min3(a, b, c) == Smallest({a, b, c})

\* n / d rounded to the nearest integer, n >= 0 and d > 0.
RoundDiv(n, d) == (2 * n + d) \div (2 * d)

\* cv2.cvtColor(img, cv2.COLOR_BGR2HSV) on 8-bit pixels: V = max(B, G, R),
\* S = 255 * (V - min) / V, H = hue in degrees / 2.
bgr2hsv(px) ==
    LET b == px[1]
        g == px[2]
        r == px[3]
        v == Max3(b, g, r)
        d == v - Min3(b, g, r)
        turn == IF v = r THEN 60 * (g - b)
                ELSE IF v = g THEN 120 * d + 60 * (b - r)
                ELSE 240 * d + 60 * (r - g)
        degrees == IF turn < 0 THEN turn + 360 * d ELSE turn
    IN <<IF d = 0 THEN 0 ELSE RoundDiv(degrees, 2 * d) % 180,
         IF v = 0 THEN 0 ELSE RoundDiv(255 * d, v),
         v>>

lower_black == <<0, 0, 0>>

upper_black == <<180, 255, 220>>

\* inRange with the upper bound excluded.
inRange_below(hsv, lower, upper) ==
    IF \A k \in 1..3 : lower[k] <= hsv[k] /\ hsv[k] < upper[k] THEN 255 ELSE 0

\* cv2.inRange on one pixel: 255 when every channel lies within the bounds,
\* both included, else 0.
inRange(hsv, lower, upper) ==
    IF \A k \in 1..3 : lower[k] <= hsv[k] /\ hsv[k] <= upper[k] THEN 255 ELSE 0

\* cv2.bitwise_and(a, a, mask=m) on one pixel.
masked(px, m) == IF m # 0 THEN px ELSE <<0, 0, 0>>

\* cv2.add on one pixel: the sum, saturated at 255.
add(px, qx) == [k \in 1..3 |-> IF px[k] + qx[k] > 255 THEN 255 ELSE px[k] + qx[k]]

\* The statements of remove_background from mask_black to preprocessed_img, on
\* one pixel.
preprocessed_pixel(px) ==
    LET mask_black == inRange(bgr2hsv(px), lower_black, upper_black)
        white_background == <<255, 255, 255>>
        mask_inv == 255 - mask_black
        kept == masked(px, mask_black)
        black_on_white == IF mask_black = 255 THEN <<0, 0, 0>> ELSE kept
        non_black_on_white == masked(white_background, mask_inv)
    IN add(black_on_white, non_black_on_white)

preprocessed_img(raster) ==
    [y \in 1..Len(raster) |->
        [x \in 1..Len(raster[y]) |-> preprocessed_pixel(raster[y][x])]]

\* opened_image_path.rsplit('.', 1)[0] + "_nobg.png"
nobg_path(path) == file_name("image_dir", [stem |-> path, suffix |-> "_nobg"], ".png")

\* An image is open and its pixels are followed.
InitBackground ==
    \E raster \in Rasters :
        /\ LoadedWindow
        /\ pixels = raster
        /\ HeapNotFollowed

\* remove_background. Without an image path it returns at once; without a raster
\* cv2.cvtColor raises and the handler only reports it.
RemoveBackground ==
    /\ opened_image_path # None
    /\ img # None
    /\ pixels' = preprocessed_img(pixels)
    /\ img' = "preprocessed"
    /\ files' = Put(files, nobg_path(opened_image_path), preprocessed_img(pixels))
    /\ UNCHANGED <<rectangles, rectangle_history, current_history_index,
                   selected_rectangle, image_loaded, opened_image_path,
                   drawing, start_pos, current_rect, last_event, redo_dropped>>
    /\ UNCHANGED <<sizeVars, sub_image, saved, valid_selections,
                   observations_dict, digitVars, heapVars>>

NextBackground == RemoveBackground

SpecBackground == InitBackground /\ [][NextBackground]_vars

\* Opening images of every kind, and drawing on them.
NextLoad ==
    \/ \E f \in Loadable \cup Files : OpenImage(f)
    \/ \E p \in Points : MousePress(p)
    \/ \E p \in Points, r \in DialogResults : MouseRelease(p, r.accepted, r.name)
    \/ ResetWorkspace

SpecLoad == Init /\ [][NextLoad]_vars

\* ------------------------------------------------------------------- claims

\* history[position] of the specification: the snapshot the index points at.
Snapshot == rectangle_history[current_history_index + 1]

\* Some region of the list carries the label.
LabelInUse(rects, name) == \E i \in 1..Len(rects) : rects[i][5] = name

\* The regions of the list that contain the point.
Hits(rects, p) == {i \in 1..Len(rects) : contains(rects[i], p)}

\* The topmost region under the point: the one drawn last.
Topmost(rects, p) == CHOOSE i \in Hits(rects, p) : \A j \in Hits(rects, p) : j <= i

\* C1: after every call in any sequence of add-region, delete-region (click or
\* Delete Selection), undo and redo, the live list `rectangles` equals
\* rectangle_history[current_history_index]: same regions, same order.
\* Checked under SpecEdit, the sequences of exactly these operations.
C1_LiveIsSnapshot == rectangles = Snapshot

\* An undo has moved the position below the last index, onto a non-empty snapshot.
C1_Witness ==
    /\ current_history_index < Len(rectangle_history) - 1
    /\ Len(rectangles) >= 1
    /\ rectangles = Snapshot

\* C2: immediately after any commit (a drag completed with a name, a click
\* that deleted a region) the position is the last index of the history list,
\* so every redo-able state is gone and redo() changes neither the position
\* nor the live list; this covers add(A); add(B); undo(); add(C); redo().
C2_CommitDiscardsRedo ==
    last_event \in {"release_add", "click_delete"} =>
        /\ current_history_index = Len(rectangle_history) - 1
        /\ redo_action(Store) = Store

\* A region was added after an undo, and the commit discarded a redo-able snapshot.
C2_Witness == last_event = "release_add" /\ redo_dropped >= 1

\* C3, as stated: from every reachable state, undo() followed immediately by
\* redo() leaves the live list equal to what it was before the undo, also at
\* position 0 with a redo-able future.
C3_UndoRedoRoundTrip ==
    redo_action(undo_action(Store)).rectangles = rectangles

\* C3, amended: from every reachable state whose position is above 0, undo()
\* followed immediately by redo() returns to the same position and leaves the
\* live list equal to history[position]; at position 0 the undo is a no-op and
\* the pair does what redo() alone does.
C3_UndoRedoRoundTripAboveZero ==
    LET back == redo_action(undo_action(Store))
    IN /\ current_history_index > 0 =>
            /\ back.current_history_index = current_history_index
            /\ back.rectangles = Snapshot
            /\ back.rectangle_history = rectangle_history
       /\ current_history_index = 0 => back = redo_action(Store)

\* Above position 0, on a live list the undo changes and the redo brings back.
C3_Witness ==
    /\ current_history_index > 0
    /\ undo_action(Store).rectangles # rectangles
    /\ redo_action(undo_action(Store)).rectangles = rectangles

\* C4: completing a drag with the label of a region already in the live list
\* always fails: no region is appended, the live list is unchanged and no
\* snapshot is committed.
C4_DuplicateLabelRejected ==
    [][\A p \in Points, name \in Labels :
          (LabelInUse(rectangles, name) /\ MouseRelease(p, TRUE, name))
              => UNCHANGED <<rectangles, rectangle_history, current_history_index>>]_vars

\* C5: undo() lowers the position by exactly 1 above 0 and is a complete no-op
\* at 0; redo() raises it by exactly 1 below the last index and is a complete
\* no-op at the last index; after either one the live list is history[position].
C5_UndoRedoStep ==
    LET undone == undo_action(Store)
        redone == redo_action(Store)
    IN /\ IF current_history_index > 0
          THEN /\ undone.current_history_index = current_history_index - 1
               /\ undone.rectangle_history = rectangle_history
          ELSE undone = Store
       /\ undone.rectangles
            = undone.rectangle_history[undone.current_history_index + 1]
       /\ IF current_history_index < Len(rectangle_history) - 1
          THEN /\ redone.current_history_index = current_history_index + 1
               /\ redone.rectangle_history = rectangle_history
          ELSE redone = Store
       /\ redone.rectangles
            = redone.rectangle_history[redone.current_history_index + 1]

\* C6: reset() empties the live list and commits a new empty snapshot at the
\* end of the history without removing earlier snapshots, so a single undo()
\* right after the reset restores the list that was live before it.
C6_ResetIsUndoable ==
    [][ResetWorkspace =>
          /\ rectangles' = <<>>
          /\ rectangle_history'[Len(rectangle_history')] = <<>>
          /\ current_history_index' = Len(rectangle_history') - 1
          /\ \A i \in 1..Len(rectangle_history) :
                i <= Len(rectangle_history') /\ rectangle_history'[i] = rectangle_history[i]
          /\ undo_action(Store').rectangles = rectangles]_vars

\* C7: in every reachable state no two regions of the live list share a label.
C7_UniqueLabels ==
    \A i, j \in 1..Len(rectangles) :
        rectangles[i][5] = rectangles[j][5] => i = j

\* C8: a completed drag whose name is empty, or whose name dialog is cancelled,
\* creates no region and commits no snapshot: live list, history list and
\* position are unchanged. Stated of every state a release can arrive in (a
\* drag is in progress) and of every release position.
C8_NoNameNoRegion ==
    (image_loaded /\ drawing /\ current_rect) =>
        \A p \in Points, d \in DialogResults :
            (~d.accepted \/ d.name = "") =>
                release_store(Store, start_pos, p, d.accepted, d.name) = Store

\* A drag was completed with the empty name over a list that holds a region.
C8_Witness == last_event = "release_empty" /\ Len(rectangles) >= 1

\* C9: a click inside several overlapping regions acts on the topmost one, the
\* one drawn last; a click inside none matches no region.
C9_ClickActsOnTopmost ==
    \A p \in Points :
        IF Hits(rectangles, p) # {}
        THEN press_store(Store, p).rectangles
                = remove_at(rectangles, Topmost(rectangles, p))
        ELSE hit_index(rectangles, p) = 0 /\ press_store(Store, p) = Store

\* C10: deleting a region of the live list removes exactly that region, keeps
\* the others in their order and commits exactly one snapshot (the history up
\* to the position, then the new list); a delete that matches no region, by a
\* click or by Delete Selection, changes neither the live list nor the history
\* list nor the position.
C10_DeleteExact ==
    /\ \A p \in Points :
          LET after == press_store(Store, p)
          IN IF Hits(rectangles, p) # {}
             THEN /\ \E k \in Hits(rectangles, p) :
                        after.rectangles = remove_at(rectangles, k)
                  /\ after.rectangle_history
                        = Append(SubSeq(rectangle_history, 1, current_history_index + 1),
                                 after.rectangles)
                  /\ after.current_history_index = current_history_index + 1
             ELSE after = Store
    /\ LET after == delete_selected(Store, selected_rectangle).store
       IN IF \E i \in 1..Len(rectangles) : rectangles[i] = selected_rectangle
          THEN /\ \E k \in 1..Len(rectangles) :
                     /\ rectangles[k] = selected_rectangle
                     /\ after.rectangles = remove_at(rectangles, k)
               /\ after.rectangle_history
                     = Append(SubSeq(rectangle_history, 1, current_history_index + 1),
                              after.rectangles)
               /\ after.current_history_index = current_history_index + 1
          ELSE after = Store

\* A click has deleted one region of a list and kept another.
C10_Witness ==
    /\ last_event = "click_delete"
    /\ Len(rectangles) >= 1
    /\ Len(rectangle_history[current_history_index]) = Len(rectangles) + 1

\* The slice bounds of the crop computed last.
Bounds == <<sub_image.x1, sub_image.y1, sub_image.x2, sub_image.y2>>

\* floor(v * native / display), the conversion of the specification.
ScaledUp(v, native, display) == (v * native) \div display

\* C11: an export converts each coordinate of a region to the native raster by
\* scaling x by native_width / display_width and y by native_height /
\* display_height and flooring; for a 2000x1000 image displayed at 1260x630 the
\* region (100,100)-(300,200) maps to x 158..476, y 158..317.
C11_ToNativeScalesThenFloors ==
    sub_image # NoCrop =>
        LET r == sub_image.rect
            native == img_original_size
            display == img_resized_size
        IN /\ Bounds = <<ScaledUp(r[1], native[1], display[1]),
                         ScaledUp(r[2], native[2], display[2]),
                         ScaledUp(r[3], native[1], display[1]),
                         ScaledUp(r[4], native[2], display[2])>>
           /\ (native = <<2000, 1000>> /\ display = <<1260, 630>> /\ r = BoxA)
                 => Bounds = <<158, 158, 476, 317>>

\* C12: the converted rectangle of every export has x1' <= x2' and y1' <= y2'
\* and is at least one pixel wide and one pixel tall, so the sub-raster cut
\* with it is never empty.
C12_CropNeverEmpty ==
    sub_image # NoCrop =>
        /\ sub_image.x1 <= sub_image.x2
        /\ sub_image.y1 <= sub_image.y2
        /\ sub_image.x2 - sub_image.x1 >= 1
        /\ sub_image.y2 - sub_image.y1 >= 1
        /\ sub_image.width >= 1
        /\ sub_image.height >= 1

\* toDisplay of the specification: each axis scaled by display / native, then
\* floored.  The source has no conversion in this direction.
to_display(v, display, native) == (v * display) \div native

Distance(a, b) == IF a < b THEN b - a ELSE a - b

\* C13: for every region and every pair of image sizes, the coordinates an
\* export converted, converted back to display space, are within one pixel of
\* the region's coordinates on each axis.
C13_RoundTripWithinOnePixel ==
    sub_image # NoCrop =>
        LET r == sub_image.rect
            native == img_original_size
            display == img_resized_size
        IN /\ Distance(to_display(sub_image.x1, display[1], native[1]), r[1]) <= 1
           /\ Distance(to_display(sub_image.y1, display[2], native[2]), r[2]) <= 1
           /\ Distance(to_display(sub_image.x2, display[1], native[1]), r[3]) <= 1
           /\ Distance(to_display(sub_image.y2, display[2], native[2]), r[4]) <= 1

\* The columns of the thresholded raster that hold a signal pixel.
FgColumns ==
    {x \in 0..(Len(binary[1]) - 1) : \E r \in 1..Len(binary) : binary[r][x + 1] = 255}

\* The rows of column x that hold a signal pixel.
FgRows(x) == {r \in 0..(Len(binary) - 1) : binary[r + 1][x + 1] = 255}

\* The i-th column with a signal pixel, counting from the left.
NthFgColumn(i) ==
    CHOOSE x \in FgColumns : Cardinality({z \in FgColumns : z < x}) = i - 1

\* The signal pixels of the raster, as (row, column).
FgPixels == {p \in (0..(Len(binary) - 1)) \X (0..(Len(binary[1]) - 1)) :
                binary[p[1] + 1][p[2] + 1] = 255}

\* a = b and a < b on exact values with positive denominators.
RatEq(a, b) == a.num * b.den = b.num * a.den

RatLess(a, b) == a.num * b.den < b.num * a.den

\* digitalize_lead has written its file; the rows after the header.
LeadWritten == lead_csv \in DOMAIN files

LeadRows == Tail(files[lead_csv])

\* The column a row of the file stands for: its time in hundredths of a second.
LeadColumn(row) == (row[1].num * 100) \div row[1].den

\* C14: the digitized signal has exactly one entry for every column that holds
\* at least one signal pixel and none for any other column (an all-background
\* raster gives the empty signal), on the lead path and on the dialog path.
C14_OneEntryPerSignalColumn ==
    /\ LeadWritten =>
          /\ Len(LeadRows) = Cardinality(FgColumns)
          /\ {LeadColumn(LeadRows[i]) : i \in 1..Len(LeadRows)} = FgColumns
    /\ \A name \in DOMAIN processed_signals :
          LET signal == processed_signals[name]
          IN /\ Len(signal) = Cardinality(FgColumns)
             /\ {signal[i][1] : i \in 1..Len(signal)} = FgColumns

\* Both paths have digitized a raster whose first column is background and
\* whose second column holds signal.
C14_Witness ==
    /\ LeadWritten
    /\ "A" \in DOMAIN processed_signals
    /\ FgColumns = {1}
    /\ Len(LeadRows) = 1
    /\ Len(processed_signals["A"]) = 1

\* C15: the row that stands for a column is exactly (min + max) / 2 of the
\* rows of its signal pixels, a half-integer when min + max is odd, on both
\* paths: the amplitude of the lead path is the amplitude of that row, and the
\* row of the dialog path is that row.
C15_RowIsExactMidpoint ==
    /\ LeadWritten =>
          \A i \in 1..Len(LeadRows) :
              LET rows == FgRows(LeadColumn(LeadRows[i]))
                  twice == Smallest(rows) + Largest(rows)
              IN RatEq(LeadRows[i][2],
                       ratio(2 * Len(binary) - 2 * twice, 2 * Len(binary)))
    /\ \A name \in DOMAIN processed_signals :
          \A i \in 1..Len(processed_signals[name]) :
              LET entry == processed_signals[name][i]
                  rows == FgRows(entry[1])
              IN RatEq(entry[2], ratio(Smallest(rows) + Largest(rows), 2))

\* C16: on the lead path the entry of the i-th signal column x is
\* (x * 0.01, 1 - (1 - (-1)) * row / H), row being the row that stands for the
\* column (the floored middle of its first and last signal pixel) and H the
\* height of the raster; a raster with a single signal pixel at row r, column x
\* gives exactly the one entry (x * 0.01, 1 - 2 * r / H).
C16_LeadEntryValues ==
    LeadWritten =>
        /\ Len(LeadRows) = Cardinality(FgColumns)
        /\ \A i \in 1..Len(LeadRows) :
              LET x == NthFgColumn(i)
                  row == (Smallest(FgRows(x)) + Largest(FgRows(x))) \div 2
              IN /\ RatEq(LeadRows[i][1], ratio(x, 100))
                 /\ RatEq(LeadRows[i][2],
                          ratio(Len(binary) - 2 * row, Len(binary)))
        /\ \A p \in FgPixels :
              FgPixels = {p} =>
                  /\ Len(LeadRows) = 1
                  /\ RatEq(LeadRows[1][1], ratio(p[2], 100))
                  /\ RatEq(LeadRows[1][2],
                           ratio(Len(binary) - 2 * p[1], Len(binary)))

\* The lead path has digitized a raster with a single signal pixel, in the
\* second column and below the first row.
C16_Witness ==
    /\ LeadWritten
    /\ Cardinality(FgPixels) = 1
    /\ \E p \in FgPixels : p[1] >= 1 /\ p[2] = 1
    /\ Len(LeadRows) = 1

\* C17: the entries of a digitized signal are in strictly increasing column
\* order, hence in strictly increasing time, and no column occurs twice.
C17_StrictlyIncreasing ==
    /\ LeadWritten =>
          \A i, j \in 1..Len(LeadRows) :
              i < j => RatLess(LeadRows[i][1], LeadRows[j][1])
    /\ \A name \in DOMAIN processed_signals :
          LET signal == processed_signals[name]
          IN \A i, j \in 1..Len(signal) : i < j => signal[i][1] < signal[j][1]

\* Both paths have digitized a raster with signal in two columns.
C17_Witness ==
    /\ LeadWritten
    /\ Len(LeadRows) = 2
    /\ "A" \in DOMAIN processed_signals
    /\ Len(processed_signals["A"]) = 2

\* The image files written before the i-th one.
SavedBefore(i) == {saved[j].file : j \in 1..(i - 1)}

\* C18: on every export path the image of a region is written to
\* <label>.png when that name is free and else to the first free of
\* <label>_1.png, <label>_2.png, ...; no export writes to a name that is taken.
C18_ExportNaming ==
    \A i \in 1..Len(saved) :
        LET f == saved[i].file
            label == f.name.label
            numbered(n) == file_name("save_dir", text_name(label, "_", n), ".png")
        IN /\ f \notin SavedBefore(i)
           /\ IF file_name("save_dir", plain(label), ".png") \notin SavedBefore(i)
              THEN f = file_name("save_dir", plain(label), ".png")
              ELSE \E n \in 1..i :
                      /\ f = numbered(n)
                      /\ \A b \in 1..(n - 1) : numbered(b) \in SavedBefore(i)

\* The entries of the manifest of a class, in file order.
Manifest(class) ==
    content_of(files, file_name("save_dir/classes", plain(class), ".txt"))

\* The images on_save has written under a class, in write order.
SavedUnder(class) ==
    LET under(e) == e.class = class
    IN SelectSeq(saved, under)

\* C19: the manifest of a class is append-only: it holds, in save order, one
\* entry for each region saved under the class, and no entry is ever removed
\* or rewritten.
C19_ManifestIsSaveLog ==
    \A class \in Classes :
        /\ Len(Manifest(class)) = Len(SavedUnder(class))
        /\ \A i \in 1..Len(Manifest(class)) :
              Manifest(class)[i] = SavedUnder(class)[i].file.name

\* A class holds two entries, the second one under a name the loop made unique.
C19_Witness ==
    \E class \in Classes :
        /\ Len(Manifest(class)) = 2
        /\ Manifest(class)[2].sep = "_copy"
        /\ Len(saved) = 3

\* The signal files of the file system.
SignalFiles == {f \in DOMAIN files : f.ext \in {".csv", "_signal.csv"}}

\* C20: every exported signal file, of either export path, is the header row
\* `Time (s), Amplitude` followed by one row per retained column in increasing
\* time order, and exporting the same signal again gives the same content.
C20_SignalFileFormat ==
    /\ \A f \in SignalFiles :
          /\ files[f][1] = <<"Time (s)", "Amplitude">>
          /\ Len(files[f]) = 1 + Cardinality(FgColumns)
          /\ \A i, j \in 2..Len(files[f]) :
                i < j => RatLess(files[f][i][1], files[f][j][1])
    /\ LeadWritten => lead_export(files, binary) = files

\* C26: a left click at a point inside at least one region never starts a draw
\* gesture: drawing, the start position and the rubber band are left as they
\* were, so no later release creates a region from that click; a click that
\* hits no region starts a gesture at its point and leaves the store alone.
C26_HitNeverStartsDraw ==
    [][\A p \in Points :
          MousePress(p) =>
              IF Hits(rectangles, p) # {}
              THEN UNCHANGED <<drawing, start_pos, current_rect>>
              ELSE /\ drawing' /\ start_pos' = p /\ current_rect'
                   /\ UNCHANGED <<rectangles, rectangle_history,
                                  current_history_index>>]_vars

\* A click has hit a region, and no gesture is in progress after it.
C26_Witness ==
    /\ last_event = "click_delete"
    /\ ~drawing
    /\ start_pos = None
    /\ ~current_rect

\* C28: in every reachable state image_loaded implies that the raster img is
\* present, also after a second open_image whose file fails to load.
C28_LoadedHasRaster == image_loaded => img # None

\* C29: selected_rectangle is None in every reachable state, so Delete
\* Selection changes neither the live list nor the history list nor the
\* position.
C29_NothingSelected ==
    /\ selected_rectangle = None
    /\ delete_selected(Store, selected_rectangle)
          = [store |-> Store, selected_rectangle |-> None]

\* Two regions are live, none is selected, and Delete Selection keeps both.
C29_Witness ==
    /\ Len(rectangles) = 2
    /\ selected_rectangle = None
    /\ delete_selected(Store, selected_rectangle).store.rectangles = rectangles

\* C30: open_image, whether the file loads or not, leaves the live list, the
\* history list and the position unchanged.
C30_OpenImageKeepsStore ==
    [][\A f \in Files :
          OpenImage(f) =>
              UNCHANGED <<rectangles, rectangle_history, current_history_index>>]_vars

\* A file that does not load was opened last; a region is live and an undone
\* one is still redo-able.
C30_Witness ==
    /\ opened_image_path = "broken.png"
    /\ img = None
    /\ Len(rectangles) >= 1
    /\ current_history_index < Len(rectangle_history) - 1

\* C23: every digitization run thresholds the sub-raster of the selected
\* region after background separation: never the whole image, never a raster
\* that was not background-separated.
C23_DigitizesSeparatedRegion ==
    scanned # NoScan =>
        /\ scanned.raster = "sub_image"
        /\ \E i \in 1..Len(rectangles) : scanned.region = rectangles[i]
        /\ scanned.masked

\* The sequence the claims give for the mask: one entry per signal column, from
\* left to right, (x * 0.01, 1 - 2 * row / H) with row the floored middle of
\* the column's first and last signal pixel.
LeadSequence ==
    [i \in 1..Cardinality(FgColumns) |->
        LET x == NthFgColumn(i)
            row == (Smallest(FgRows(x)) + Largest(FgRows(x))) \div 2
        IN <<ratio(x, 100), ratio(Len(binary) - 2 * row, Len(binary))>>]

\* C24: digitization is a function of its mask alone: whatever ran before
\* (dialog previews and digitizations, earlier runs and the files they left),
\* a run on the same mask writes the same sequence.
C24_SequenceDependsOnMaskOnly ==
    LeadWritten => LeadRows = LeadSequence

\* A second run has ended, after a first one whose dialog digitized and saved
\* region A; the mask holds signal.
C24_Witness ==
    /\ LeadWritten
    /\ file_name("save_dir", plain("A"), "_signal.csv") \in DOMAIN files
    /\ ~digitalize_dialog
    /\ processed_signals = EmptyMap
    /\ FgColumns # {}

\* C25: in every state, those inside a commit included (after the truncation,
\* after the append, before the index is set), the history is not empty and
\* 0 <= current_history_index <= len(rectangle_history) - 1.
C25_IndexAlwaysInRange ==
    /\ rectangle_history # <<>>
    /\ 0 <= current_history_index
    /\ current_history_index <= Len(rectangle_history) - 1

\* Inside a commit that dropped nothing, after the append: the index still
\* points at the entry before the new one.
C25_Witness ==
    /\ pc = "appended"
    /\ Len(rectangle_history) >= 3
    /\ current_history_index = Len(rectangle_history) - 2

\* C27: a committed snapshot holds what it held when it was committed, whatever
\* was done to the live list since, and the live list is none of the history's
\* list objects.
C27_SnapshotsNeverChange ==
    /\ \A i \in 1..Len(snapshots) :
          /\ snapshots[i] \in DOMAIN committed
          /\ heap[snapshots[i]] = committed[snapshots[i]]
    /\ live \notin Range(snapshots)

\* The live list was loaded from a snapshot by an undo and then edited in
\* place: it now differs from that snapshot.
C27_Witness ==
    /\ pc = "edited"
    /\ current_history_index < Len(snapshots) - 1
    /\ heap[live] # heap[snapshots[current_history_index + 1]]

Black == <<0, 0, 0>>

White == <<255, 255, 255>>

\* H in 0..180, S in 0..255, V in 0..220, on the pixel's HSV value.
WithinDefaultBounds(px) ==
    LET hsv == bgr2hsv(px)
    IN /\ 0 <= hsv[1] /\ hsv[1] <= 180
       /\ 0 <= hsv[2] /\ hsv[2] <= 255
       /\ 0 <= hsv[3] /\ hsv[3] <= 220

\* C21: background separation gives an image of two levels: a pixel whose HSV
\* value lies within the bounds (H 0-180, S 0-255, V 0-220) becomes pure black,
\* every other pixel pure white, each pixel by itself.
C21_TwoLevelImage ==
    [][RemoveBackground =>
          /\ Len(pixels') = Len(pixels)
          /\ \A y \in 1..Len(pixels) :
                /\ Len(pixels'[y]) = Len(pixels[y])
                /\ \A x \in 1..Len(pixels[y]) :
                      pixels'[y][x] = IF WithinDefaultBounds(pixels[y][x])
                                      THEN Black ELSE White]_vars

\* The separation of a two-pixel raster has run and gave one pixel of each level.
C21_Witness ==
    /\ img = "preprocessed"
    /\ nobg_path(opened_image_path) \in DOMAIN files
    /\ pixels = <<<<Black, White>>>>

\* C22: after open_image the display size is 1260 wide and
\* round(1260 / (native width / native height)) high: rounded, not truncated.
C22_DisplayHeightRounded ==
    image_loaded =>
        img_resized_size =
            <<1260, RoundDiv(1260 * img_original_size[2], img_original_size[1])>>

====
